---- MODULE Spec2Model ----
(***************************************************************************)
(* RasterizerCellsAntiAlias<CellBuildAntiAlias>                            *)
(* (interfaces/kits/gfx_utils/diagram/rasterizer/                          *)
(*  rasterizer_cells_antialias.h): the cell pool, the edge rasterizer      *)
(* (LineOperate / RenderHorizonline), the row sorter (SortAllCells /       *)
(* QsortCells) and the scanline view.                                      *)
(*                                                                         *)
(* The builder object is a record (one field per data member, named as in  *)
(* the class); every member function is an operator from builder to        *)
(* builder, translated statement by statement.  The state variables are    *)
(* the data members; each public operation is one action.                  *)
(*                                                                         *)
(* Scaled constants.  A block of the real pool holds 4096 cells, the block *)
(* table grows by 256 entries and the dx guard is CONSTITUTION << 8 with a *)
(* CONSTITUTION defined outside this file.  The model keeps the formulas   *)
(* (CELL_BLOCK_SIZE = 1 << CELL_BLOCK_SHIFT, ...) and shrinks the three    *)
(* numbers so that block boundaries, table growth and bisection happen     *)
(* within a few cells and a few pixels.                                    *)
(***************************************************************************)
EXTENDS Integers, Sequences, FiniteSets, TLC

(* ------------------------------------------------------------------ *)
(* Constants                                                           *)
(* ------------------------------------------------------------------ *)

\* enum CellBlockScale (scaled: 12 in the source)
CELL_BLOCK_SHIFT == 1
RECURSIVE Pow2(_)
Pow2(n) == IF n = 0 THEN 1 ELSE 2 * Pow2(n - 1)
CELL_BLOCK_SIZE == Pow2(CELL_BLOCK_SHIFT)
CELL_BLOCK_MASK == CELL_BLOCK_SIZE - 1
\* scaled: 256 in the source
CELL_BLOCK_POOL == 2

\* sub-pixel fixed point: 8 fractional bits, scale 256
POLY_SUBPIXEL_SHIFT == 8
POLY_SUBPIXEL_SCALE == Pow2(POLY_SUBPIXEL_SHIFT)
POLY_SUBPIXEL_MASK == POLY_SUBPIXEL_SCALE - 1

\* enum DxLimit: DX_LIMIT = CONSTITUTION << POLY_SUBPIXEL_SHIFT (CONSTITUTION scaled)
CONSTITUTION == 2
DX_LIMIT == CONSTITUTION * POLY_SUBPIXEL_SCALE

INT32_MAX == 2147483647
INT32_MIN == (-2147483647) - 1

QSORT_THRESHOLD == 9
stackSize == 80
TWO_TIMES == 2
TWO_STEP == 2

\* default argument of the constructor
DefaultCellBlockLimit == 1024

(* ------------------------------------------------------------------ *)
(* C++ integer arithmetic                                              *)
(* ------------------------------------------------------------------ *)

Abs(a) == IF a < 0 THEN -a ELSE a

\* C++ '/' and '%' truncate toward zero (b > 0 at every use)
CDiv(a, b) == IF a >= 0 THEN a \div b ELSE -((-a) \div b)
CMod(a, b) == a - b * CDiv(a, b)

\* x >> n on a signed value (arithmetic shift) and x & mask for mask = 2^n - 1
Shr(a, n) == a \div Pow2(n)
AndMask(a, n) == a % Pow2(n)

(* ------------------------------------------------------------------ *)
(* CellBuildAntiAlias                                                  *)
(* ------------------------------------------------------------------ *)

Cell(x, y, cover, area) == [x |-> x, y |-> y, cover |-> cover, area |-> area]

\* CellBuildAntiAlias::Initial
Initial == Cell(INT32_MAX, INT32_MAX, 0, 0)

\* CellBuildAntiAlias::NotEqual: (ex - x) | (ey - y), non-zero iff the pixel differs
NotEqual(c, ex, ey) == (ex # c.x) \/ (ey # c.y)

\* content of a freshly allocated, never written slot (never read by the code)
UninitCell == Cell(0, 0, 0, 0)

\* a pointer into the pool: block index and slot index, both from 0
Ptr(blk, slot) == [blk |-> blk, slot |-> slot]
NullPtr == Ptr(-1, 0)

(* ------------------------------------------------------------------ *)
(* Cell storage                                                        *)
(* ------------------------------------------------------------------ *)

\* RasterizerCellsAntiAlias::RasterizerCellsAntiAlias(cellBlockLimit)
\* commits / badWrite are bookkeeping of the run, not data members:
\*   commits  - the non-zero cells handed to AddCurrentCell since construction or
\*              Reset, in order (stored or dropped)
\*   badWrite - a store through a pointer that is null or outside an allocated block,
\*              or a row-table index outside the table, has happened
\*   guardDx  - the largest |x2 - x1| the code after the guard of LineOperate has run
\*              with during the last LineOperate call
\*   bodyRuns - the number of times the code after the guard of LineOperate has run
\*              since construction or Reset
\*   astray   - a loop of LineOperate or RenderHorizonline has made a step that does
\*              not bring its counter nearer to its target, or the guard of
\*              LineOperate has recursed on a half that is not shorter than the whole
\*   qOob, qMaxTop - over the QsortCells runs of the last sort: an element outside
\*              the slice was touched; the largest stack use (in entries)
Construct(cellBlockLimit) ==
    [numBlocks_ |-> 0, maxBlocks_ |-> 0, currBlock_ |-> 0, numCells_ |-> 0,
     cellBlockLimit_ |-> cellBlockLimit,
     cells_ |-> << >>, currCellPtr_ |-> NullPtr,
     sortedCells_ |-> << >>, sortedY_ |-> << >>,
     currCell_ |-> Initial, styleCell_ |-> Initial,
     minX_ |-> INT32_MAX, minY_ |-> INT32_MAX, maxX_ |-> INT32_MIN, maxY_ |-> INT32_MIN,
     sorted_ |-> FALSE,
     commits |-> << >>, badWrite |-> FALSE, guardDx |-> 0, bodyRuns |-> 0,
     astray |-> FALSE, qOob |-> FALSE, qMaxTop |-> 0]

\* Reset that leaves currBlock_ where the last shape ended
ResetOpKeepBlock(b) ==
    [b EXCEPT !.numCells_ = 0,
              !.currCell_ = Initial, !.styleCell_ = Initial,
              !.sorted_ = FALSE,
              !.minX_ = INT32_MAX, !.minY_ = INT32_MAX,
              !.maxX_ = INT32_MIN, !.maxY_ = INT32_MIN,
              !.commits = << >>, !.guardDx = 0, !.bodyRuns = 0,
              !.qOob = FALSE, !.qMaxTop = 0]

\* RasterizerCellsAntiAlias::Reset
ResetOp(b) ==
    [b EXCEPT !.numCells_ = 0, !.currBlock_ = 0,
              !.currCell_ = Initial, !.styleCell_ = Initial,
              !.sorted_ = FALSE,
              !.minX_ = INT32_MAX, !.minY_ = INT32_MAX,
              !.maxX_ = INT32_MIN, !.maxY_ = INT32_MIN,
              !.commits = << >>, !.guardDx = 0, !.bodyRuns = 0,
              !.qOob = FALSE, !.qMaxTop = 0]

\* AllocateBlock whose enlarged block table is not filled from the old one: the
\* entries of the blocks allocated so far designate fresh memory
AllocateBlockNoCopy(b) ==
    LET grow   == b.currBlock_ >= b.numBlocks_
        table  == grow /\ b.numBlocks_ >= b.maxBlocks_
        b1     == IF table
                  THEN [b EXCEPT !.maxBlocks_ = b.maxBlocks_ + CELL_BLOCK_POOL,
                                 !.cells_ = [n \in 1..Len(b.cells_) |->
                                                [i \in 1..CELL_BLOCK_SIZE |-> UninitCell]]]
                  ELSE b
        b2     == IF grow
                  THEN [b1 EXCEPT !.cells_ = Append(b1.cells_, [i \in 1..CELL_BLOCK_SIZE |-> UninitCell]),
                                  !.numBlocks_ = b1.numBlocks_ + 1]
                  ELSE b1
    IN  [b2 EXCEPT !.currCellPtr_ = Ptr(b2.currBlock_, 0),
                   !.currBlock_ = b2.currBlock_ + 1]

\* RasterizerCellsAntiAlias::AllocateBlock
AllocateBlock(b) ==
    LET grow   == b.currBlock_ >= b.numBlocks_
        table  == grow /\ b.numBlocks_ >= b.maxBlocks_
        b1     == IF table
                  THEN [b EXCEPT !.maxBlocks_ = b.maxBlocks_ + CELL_BLOCK_POOL]
                  ELSE b
        b2     == IF grow
                  THEN [b1 EXCEPT !.cells_ = Append(b1.cells_, [i \in 1..CELL_BLOCK_SIZE |-> UninitCell]),
                                  !.numBlocks_ = b1.numBlocks_ + 1]
                  ELSE b1
    IN  [b2 EXCEPT !.currCellPtr_ = Ptr(b2.currBlock_, 0),
                   !.currBlock_ = b2.currBlock_ + 1]

\* *currCellPtr_++ = currCell_
ValidPtr(b, p) == p.blk >= 0 /\ p.blk < b.numBlocks_ /\ p.slot >= 0 /\ p.slot < CELL_BLOCK_SIZE
StoreCell(b) ==
    LET p == b.currCellPtr_
    IN  IF ValidPtr(b, p)
        THEN [b EXCEPT !.cells_[p.blk + 1][p.slot + 1] = b.currCell_,
                       !.currCellPtr_ = Ptr(p.blk, p.slot + 1)]
        ELSE [b EXCEPT !.badWrite = TRUE]

\* AddCurrentCell with the limit test weakened to numBlocks_ > cellBlockLimit_
AddCurrentCellOver(b) ==
    LET areaCoverFlags == (b.currCell_.area # 0) \/ (b.currCell_.cover # 0)
        b0 == [b EXCEPT !.commits = Append(b.commits, b.currCell_)]
    IN  IF ~areaCoverFlags THEN b
        ELSE IF AndMask(b0.numCells_, CELL_BLOCK_SHIFT) = 0
             THEN IF b0.numBlocks_ > b0.cellBlockLimit_
                  THEN b0
                  ELSE LET b1 == StoreCell(AllocateBlock(b0))
                       IN  [b1 EXCEPT !.numCells_ = b1.numCells_ + 1]
             ELSE LET b1 == StoreCell(b0)
                  IN  [b1 EXCEPT !.numCells_ = b1.numCells_ + 1]

\* AddCurrentCell without the test of area | cover
AddCurrentCellAlways(b) ==
    LET b0 == [b EXCEPT !.commits = Append(b.commits, b.currCell_)]
    IN  IF AndMask(b0.numCells_, CELL_BLOCK_SHIFT) = 0
        THEN IF b0.numBlocks_ >= b0.cellBlockLimit_
             THEN b0
             ELSE LET b1 == StoreCell(AllocateBlock(b0))
                  IN  [b1 EXCEPT !.numCells_ = b1.numCells_ + 1]
        ELSE LET b1 == StoreCell(b0)
             IN  [b1 EXCEPT !.numCells_ = b1.numCells_ + 1]

\* AddCurrentCell that takes the next block before it looks at area | cover
AddCurrentCellSpeculative(b) ==
    LET areaCoverFlags == (b.currCell_.area # 0) \/ (b.currCell_.cover # 0)
        b0 == IF areaCoverFlags THEN [b EXCEPT !.commits = Append(b.commits, b.currCell_)] ELSE b
    IN  IF AndMask(b0.numCells_, CELL_BLOCK_SHIFT) = 0
        THEN IF b0.numBlocks_ >= b0.cellBlockLimit_
             THEN b0
             ELSE IF areaCoverFlags
                  THEN LET b1 == StoreCell(AllocateBlock(b0))
                       IN  [b1 EXCEPT !.numCells_ = b1.numCells_ + 1]
                  ELSE AllocateBlock(b0)
        ELSE IF areaCoverFlags
             THEN LET b1 == StoreCell(b0)
                  IN  [b1 EXCEPT !.numCells_ = b1.numCells_ + 1]
             ELSE b0

\* RasterizerCellsAntiAlias::AddCurrentCell
AddCurrentCell(b) ==
    LET areaCoverFlags == (b.currCell_.area # 0) \/ (b.currCell_.cover # 0)
        b0 == [b EXCEPT !.commits = Append(b.commits, b.currCell_)]
    IN  IF ~areaCoverFlags THEN b
        ELSE IF AndMask(b0.numCells_, CELL_BLOCK_SHIFT) = 0
             THEN IF b0.numBlocks_ >= b0.cellBlockLimit_
                  THEN b0
                  ELSE LET b1 == StoreCell(AllocateBlock(b0))
                       IN  [b1 EXCEPT !.numCells_ = b1.numCells_ + 1]
             ELSE LET b1 == StoreCell(b0)
                  IN  [b1 EXCEPT !.numCells_ = b1.numCells_ + 1]

\* SetCurrentCell that moves the current cell without clearing its cover and area
SetCurrentCellKeep(b, x, y) ==
    IF NotEqual(b.currCell_, x, y)
    THEN [AddCurrentCell(b) EXCEPT !.currCell_.x = x, !.currCell_.y = y]
    ELSE b

\* RasterizerCellsAntiAlias::SetCurrentCell
SetCurrentCell(b, x, y) ==
    IF NotEqual(b.currCell_, x, y)
    THEN [AddCurrentCell(b) EXCEPT !.currCell_ = Cell(x, y, 0, 0)]
    ELSE b

\* Accumulate with the area contribution counted twice
AccumulateWide(b, dcover, darea) ==
    [b EXCEPT !.currCell_.cover = b.currCell_.cover + dcover,
              !.currCell_.area = b.currCell_.area + darea + darea]

\* currCell_.cover += dcover; currCell_.area += darea
Accumulate(b, dcover, darea) ==
    [b EXCEPT !.currCell_.cover = b.currCell_.cover + dcover,
              !.currCell_.area = b.currCell_.area + darea]

\* Sequencing.  Let(v, K) is K applied to the value v, computed first: "b1 = f(b);
\* then the rest with b1", the way the statements of the source follow one another.
Let(v, K(_)) == IF v = v THEN K(v) ELSE K(v)

Min2(a, c) == IF a < c THEN a ELSE c
Max2(a, c) == IF a > c THEN a ELSE c

\* OutLineLegal that keeps the maxima only
OutLineLegalNoMin(b, x1, y1, x2, y2) ==
    [b EXCEPT !.maxX_ = Max2(Max2(b.maxX_, x1), x2),
              !.maxY_ = Max2(Max2(b.maxY_, y1), y2)]

\* OutLineLegal that looks at the first point only
OutLineLegalFirst(b, x1, y1, x2, y2) ==
    [b EXCEPT !.minX_ = Min2(b.minX_, x1),
              !.maxX_ = Max2(b.maxX_, x1),
              !.minY_ = Min2(b.minY_, y1),
              !.maxY_ = Max2(b.maxY_, y1)]

\* RasterizerCellsAntiAlias::OutLineLegal
OutLineLegal(b, x1, y1, x2, y2) ==
    [b EXCEPT !.minX_ = Min2(Min2(b.minX_, x1), x2),
              !.maxX_ = Max2(Max2(b.maxX_, x1), x2),
              !.minY_ = Min2(Min2(b.minY_, y1), y2),
              !.maxY_ = Max2(Max2(b.maxY_, y1), y2)]

(* ------------------------------------------------------------------ *)
(* Edge rasterizer                                                     *)
(* ------------------------------------------------------------------ *)
\* TLC's integers are 32 bits wide and an overflow stops the check with an error, so
\* every int32_t of the source keeps its width.  The long long intermediates
\* (dx, dy, deltaxMask) stay far inside 32 bits for the coordinates used here.

\* A step of a loop "while (counter != target) { ...; counter += increase; }" brings
\* the counter nearer to the target.  A loop whose step does not would not end before
\* its counter overflows: the run is flagged and the loop is left.
Nearer(next, counter, target) == Abs(target - next) < Abs(target - counter)

\* the while (pixelX1 != pixelX2) loop of RenderHorizonline; st holds the loop's locals
RECURSIVE HlineLoop(_, _, _, _, _, _, _)
HlineLoop(b, ey, pixelX2, increase, dx, liftDxMask, st) ==
    IF st.pixelX1 = pixelX2 THEN [b |-> b, y1 |-> st.y1]
    ELSE IF ~Nearer(st.pixelX1 + increase, st.pixelX1, pixelX2)
    THEN [b |-> [b EXCEPT !.astray = TRUE], y1 |-> st.y1]
    ELSE LET m0    == st.modDxMask + st.remDxMask
             carry == m0 >= 0
             delta == IF carry THEN liftDxMask + 1 ELSE liftDxMask
             m1    == IF carry THEN m0 - dx ELSE m0
             px    == st.pixelX1 + increase
         IN  Let(SetCurrentCell(Accumulate(b, delta, POLY_SUBPIXEL_SCALE * delta), px, ey),
                 LAMBDA b2 :
                 HlineLoop(b2, ey, pixelX2, increase, dx, liftDxMask,
                           [pixelX1 |-> px, modDxMask |-> m1, remDxMask |-> st.remDxMask,
                            y1 |-> st.y1 + delta]))

\* RenderHorizonline taken as one step that adds the horizontal run x2 - x1 to the
\* area of the cell it leaves
RenderHorizonlineSweep(b, ey, x1, polySubpixelMaskY1, x2, polySubpixelMaskY2) ==
    SetCurrentCell(Accumulate(b, polySubpixelMaskY2 - polySubpixelMaskY1, x2 - x1),
                   Shr(x2, POLY_SUBPIXEL_SHIFT), ey)

\* RasterizerCellsAntiAlias::RenderHorizonline
RenderHorizonline(b, ey, x1, polySubpixelMaskY1, x2, polySubpixelMaskY2) ==
    LET submaskFlagsX1 == AndMask(x1, POLY_SUBPIXEL_SHIFT)
        submaskFlagsX2 == AndMask(x2, POLY_SUBPIXEL_SHIFT)
        pixelX1 == Shr(x1, POLY_SUBPIXEL_SHIFT)
        pixelX2 == Shr(x2, POLY_SUBPIXEL_SHIFT)
        dy      == polySubpixelMaskY2 - polySubpixelMaskY1
    IN  IF polySubpixelMaskY2 = polySubpixelMaskY1
        THEN SetCurrentCell(b, pixelX2, ey)
        ELSE IF pixelX1 = pixelX2
        THEN Accumulate(b, dy, (submaskFlagsX1 + submaskFlagsX2) * dy)
        ELSE
        LET neg        == x2 - x1 < 0
            first      == IF neg THEN 0 ELSE POLY_SUBPIXEL_SCALE
            increase   == IF neg THEN -1 ELSE 1
            dx         == IF neg THEN -(x2 - x1) ELSE x2 - x1
            deltayMask == IF neg THEN submaskFlagsX1 * dy
                                 ELSE (POLY_SUBPIXEL_SCALE - submaskFlagsX1) * dy
            q0         == CDiv(deltayMask, dx)
            r0         == CMod(deltayMask, dx)
            delta      == IF r0 < 0 THEN q0 - 1 ELSE q0
            modDxMask  == IF r0 < 0 THEN r0 + dx ELSE r0
            px         == pixelX1 + increase
            y1a        == polySubpixelMaskY1 + delta
            \* if (pixelX1 != pixelX2) { ... while ... }
            deltay2    == POLY_SUBPIXEL_SCALE * (polySubpixelMaskY2 - y1a + delta)
            r1         == CMod(deltay2, dx)
            q1         == CDiv(deltay2, dx)
            liftDxMask == IF r1 < 0 THEN q1 - 1 ELSE q1
            remDxMask  == IF r1 < 0 THEN r1 + dx ELSE r1
        IN  Let(SetCurrentCell(Accumulate(b, delta, (submaskFlagsX1 + first) * delta), px, ey),
                LAMBDA b2 :
            Let(IF px # pixelX2
                THEN HlineLoop(b2, ey, pixelX2, increase, dx, liftDxMask,
                               [pixelX1 |-> px, modDxMask |-> modDxMask - dx,
                                remDxMask |-> remDxMask, y1 |-> y1a])
                ELSE [b |-> b2, y1 |-> y1a],
                LAMBDA lp :
            Accumulate(lp.b, polySubpixelMaskY2 - lp.y1,
                       (submaskFlagsX2 + POLY_SUBPIXEL_SCALE - first)
                           * (polySubpixelMaskY2 - lp.y1))))

\* the while (ey1 != ey2) loop of the vertical-line branch of LineOperate
RECURSIVE VlineLoop(_, _, _, _, _, _, _)
\* the loop with ey1 += 1 in place of ey1 += increase
VlineLoopUp(b, ex, ey1, ey2, increase, delta, area) ==
    IF ey1 = ey2 THEN b
    ELSE IF ~Nearer(ey1 + 1, ey1, ey2) THEN [b EXCEPT !.astray = TRUE]
    ELSE Let(SetCurrentCell([b EXCEPT !.currCell_.cover = delta, !.currCell_.area = area],
                            ex, ey1 + 1),
             LAMBDA b2 : VlineLoop(b2, ex, ey1 + 1, ey2, increase, delta, area))
\* while (ey1 != ey2) { cover = delta; area = area; ey1 += increase; SetCurrentCell }
VlineLoop(b, ex, ey1, ey2, increase, delta, area) ==
    IF ey1 = ey2 THEN b
    ELSE IF ~Nearer(ey1 + increase, ey1, ey2) THEN [b EXCEPT !.astray = TRUE]
    ELSE Let(SetCurrentCell([b EXCEPT !.currCell_.cover = delta, !.currCell_.area = area],
                            ex, ey1 + increase),
             LAMBDA b2 : VlineLoop(b2, ex, ey1 + increase, ey2, increase, delta, area))

\* the while (ey1 != ey2) loop of the sloped branch of LineOperate
RECURSIVE SlopeLoop(_, _, _, _, _, _, _)
SlopeLoop(b, ey2, increase, dy, liftDyMask, first, st) ==
    IF st.ey1 = ey2 THEN [b |-> b, xFrom |-> st.xFrom]
    ELSE IF ~Nearer(st.ey1 + increase, st.ey1, ey2)
    THEN [b |-> [b EXCEPT !.astray = TRUE], xFrom |-> st.xFrom]
    ELSE LET m0    == st.modDyMask + st.remDyMask
             carry == m0 >= 0
             delta == IF carry THEN liftDyMask + 1 ELSE liftDyMask
             m1    == IF carry THEN m0 - dy ELSE m0
             xTo   == st.xFrom + delta
             ey    == st.ey1 + increase
         IN  Let(RenderHorizonline(b, st.ey1, st.xFrom, POLY_SUBPIXEL_SCALE - first, xTo, first),
                 LAMBDA b1 :
             Let(SetCurrentCell(b1, Shr(xTo, POLY_SUBPIXEL_SHIFT), ey),
                 LAMBDA b2 :
             SlopeLoop(b2, ey2, increase, dy, liftDyMask, first,
                       [ey1 |-> ey, xFrom |-> xTo, modDyMask |-> m1,
                        remDyMask |-> st.remDyMask])))

\* LineOperate from "long long dy = ..." to its end: the code after the dx guard
LineBody(b, x1, y1, x2, y2) ==
    LET dx  == x2 - x1
        dy0 == y2 - y1
        ex1 == Shr(x1, POLY_SUBPIXEL_SHIFT)
        ex2 == Shr(x2, POLY_SUBPIXEL_SHIFT)
        ey1 == Shr(y1, POLY_SUBPIXEL_SHIFT)
        ey2 == Shr(y2, POLY_SUBPIXEL_SHIFT)
        submaskFlagsY1 == AndMask(y1, POLY_SUBPIXEL_SHIFT)
        submaskFlagsY2 == AndMask(y2, POLY_SUBPIXEL_SHIFT)
        neg      == dy0 < 0
        first    == IF neg THEN 0 ELSE POLY_SUBPIXEL_SCALE
        increase == IF neg THEN -1 ELSE 1
        \* vertical line
        ex    == Shr(x1, POLY_SUBPIXEL_SHIFT)
        twoFx == (x1 - ex * POLY_SUBPIXEL_SCALE) * 2
        d1    == first - submaskFlagsY1
        d2    == first + first - POLY_SUBPIXEL_SCALE
        d3    == submaskFlagsY2 - POLY_SUBPIXEL_SCALE + first
        \* several hlines
        dy         == IF neg THEN -dy0 ELSE dy0
        deltaxMask == IF neg THEN submaskFlagsY1 * dx
                             ELSE (POLY_SUBPIXEL_SCALE - submaskFlagsY1) * dx
        q0         == CDiv(deltaxMask, dy)
        r0         == CMod(deltaxMask, dy)
        delta      == IF r0 < 0 THEN q0 - 1 ELSE q0
        modDyMask  == IF r0 < 0 THEN r0 + dy ELSE r0
        xFrom      == x1 + delta
        eyn        == ey1 + increase
        dxm        == POLY_SUBPIXEL_SCALE * dx
        q1         == CDiv(dxm, dy)
        r1         == CMod(dxm, dy)
        liftDyMask == IF r1 < 0 THEN q1 - 1 ELSE q1
        remDyMask  == IF r1 < 0 THEN r1 + dy ELSE r1
    IN  Let(SetCurrentCell(OutLineLegal([b EXCEPT !.guardDx = Max2(b.guardDx, Abs(dx)),
                                                  !.bodyRuns = b.bodyRuns + 1],
                                        ex1, ey1, ex2, ey2), ex1, ey1),
            LAMBDA b0 :
        IF ey1 = ey2
        THEN RenderHorizonline(b0, ey1, x1, submaskFlagsY1, x2, submaskFlagsY2)
        ELSE IF dx = 0
        THEN Let(SetCurrentCell(Accumulate(b0, d1, twoFx * d1), ex, ey1 + increase),
                 LAMBDA b2 :
             Let(VlineLoop(b2, ex, ey1 + increase, ey2, increase, d2, twoFx * d2),
                 LAMBDA b3 :
             Accumulate(b3, d3, twoFx * d3)))
        ELSE Let(RenderHorizonline(b0, ey1, x1, submaskFlagsY1, xFrom, first),
                 LAMBDA b1 :
             Let(SetCurrentCell(b1, Shr(xFrom, POLY_SUBPIXEL_SHIFT), eyn),
                 LAMBDA b2 :
             Let(IF eyn # ey2
                 THEN SlopeLoop(b2, ey2, increase, dy, liftDyMask, first,
                                [ey1 |-> eyn, xFrom |-> xFrom,
                                 modDyMask |-> modDyMask - dy, remDyMask |-> remDyMask])
                 ELSE [b |-> b2, xFrom |-> xFrom],
                 LAMBDA lp :
             RenderHorizonline(lp.b, ey2, lp.xFrom, POLY_SUBPIXEL_SCALE - first, x2,
                               submaskFlagsY2)))))

\* RasterizerCellsAntiAlias::LineOperate.  The guard's block ends without a return:
\* after the two recursive calls the code below it runs for the whole segment as well.
\* A half that is not shorter than the whole would be halved without end: the run is
\* flagged and the recursion is left.
RECURSIVE LineOperate(_, _, _, _, _)
LineOperate(b, x1, y1, x2, y2) ==
    LET dx == x2 - x1
        cx == Shr(x1 + x2, 1)
        cy == Shr(y1 + y2, 1)
    IN  IF dx >= DX_LIMIT \/ dx <= -DX_LIMIT
        THEN IF Abs(cx - x1) >= Abs(dx) \/ Abs(x2 - cx) >= Abs(dx)
             THEN [b EXCEPT !.astray = TRUE]
             ELSE Let(LineOperate(b, x1, y1, cx, cy), LAMBDA h1 :
                  Let(LineOperate(h1, cx, cy, x2, y2), LAMBDA h2 :
                  LineBody(h2, x1, y1, x2, y2)))
        ELSE LineBody(b, x1, y1, x2, y2)

(* ------------------------------------------------------------------ *)
(* Row sorter                                                          *)
(* ------------------------------------------------------------------ *)
\* The array being sorted is sortedCells_ (a sequence of pointers); an index k of the
\* source (Cell** start + k) is position k + 1 of the sequence.  A sort run is a record
\*   arr    - the pointer array
\*   lo, hi - the slice [start, start + num) handed to QsortCells
\*   oob    - an element outside the slice has been read or swapped
\*   maxTop - the largest value of top - stack (in entries) the run has reached

\* the cell a pointer designates
Deref(cells, p) == cells[p.blk + 1][p.slot + 1]

InSlice(q, k) == q.lo <= k /\ k < q.hi
Touch(q, k) == IF InSlice(q, k) THEN q ELSE [q EXCEPT !.oob = TRUE]
\* (*p)->x
XAt(cells, q, k) == Deref(cells, q.arr[k + 1]).x

\* SwapCells
SwapCells(q, i, j) ==
    IF InSlice(q, i) /\ InSlice(q, j)
    THEN [q EXCEPT !.arr[i + 1] = q.arr[j + 1], !.arr[j + 1] = q.arr[i + 1]]
    ELSE [q EXCEPT !.oob = TRUE]

\* do { i++; } while ((*i)->x < x);   called with the incremented index.  A read
\* outside the slice is undefined: the scan stops there and the run is flagged.
RECURSIVE ScanUp(_, _, _, _)
ScanUp(cells, q, i, x) ==
    IF ~InSlice(q, i) THEN i
    ELSE IF XAt(cells, q, i) < x THEN ScanUp(cells, q, i + 1, x) ELSE i

\* do { j--; } while (x < (*j)->x);   called with the decremented index
RECURSIVE ScanDown(_, _, _, _)
ScanDown(cells, q, j, x) ==
    IF ~InSlice(q, j) THEN j
    ELSE IF x < XAt(cells, q, j) THEN ScanDown(cells, q, j - 1, x) ELSE j

\* the while (1) loop of QsortCellsSweep: the two scans, then
\*   if (i > j) break;  SwapCells(i, j);
RECURSIVE SweepLoop(_, _, _, _, _)
SweepStep(cells, q, base, i1, j1) ==
    IF i1 > j1 \/ ~InSlice(q, i1) \/ ~InSlice(q, j1)
    THEN [q |-> Touch(Touch(q, i1), j1), iIndex |-> i1, jIndex |-> j1]
    ELSE SweepLoop(cells, SwapCells(q, i1, j1), base, i1, j1)
SweepLoop(cells, q, base, iIndex, jIndex) ==
    SweepStep(cells, q, base,
              ScanUp(cells, q, iIndex + 1, XAt(cells, q, base)),
              ScanDown(cells, q, jIndex - 1, XAt(cells, q, base)))

\* if ((*a)->x < (*c)->x) SwapCells(a, c)
SwapIfLess(cells, q, a, c) ==
    IF XAt(cells, q, a) < XAt(cells, q, c) THEN SwapCells(q, a, c) ELSE q

\* QsortCellsSweep without the three exchanges that put *i <= *base <= *j
QsortCellsSweepNoMedian(cells, q, base, iIndex, jIndex) ==
    SweepLoop(cells, q, base, iIndex, jIndex)

\* QsortCellsSweep: median of three on (i, base, j), then the partition scans
QsortCellsSweep(cells, q, base, iIndex, jIndex) ==
    SweepLoop(cells,
              SwapIfLess(cells,
                         SwapIfLess(cells, SwapIfLess(cells, q, jIndex, iIndex), base, iIndex),
                         jIndex, base),
              base, iIndex, jIndex)

\* the inner for of QsortCellsFor:
\*   for (; j[1]->x < (*j)->x; j--) { SwapCells(j + 1, j); if (j == base) break; }
RECURSIVE InsertDown(_, _, _, _)
InsertDown(cells, q, jIndex, base) ==
    IF XAt(cells, q, jIndex + 1) < XAt(cells, q, jIndex)
    THEN IF jIndex = base
         THEN SwapCells(q, jIndex + 1, jIndex)
         ELSE InsertDown(cells, SwapCells(q, jIndex + 1, jIndex), jIndex - 1, base)
    ELSE q

\* QsortCellsFor that leaves the range as it is
QsortCellsForNone(cells, q, iIndex, limit, base) == q

\* QsortCellsFor: insertion sort of [base, limit); on entry jIndex = iIndex - 1.
\* An access outside the slice is undefined behaviour: the run is flagged and stops.
RECURSIVE QsortCellsFor(_, _, _, _, _)
QsortCellsFor(cells, q, iIndex, limit, base) ==
    IF q.oob \/ iIndex >= limit THEN q
    ELSE QsortCellsFor(cells, InsertDown(cells, q, iIndex - 1, base), iIndex + 1, limit, base)

\* the while (1) loop of QsortCells; stack is the used part of Cell** stack[stackSize]
RECURSIVE QsortLoop(_, _, _, _, _)
\* after the sweep: SwapCells(base, j), then push the larger sub-array and go on
\* with the smaller one
QsortPush(cells, sw, base, limit, stack) ==
    IF sw.q.oob THEN sw.q
    ELSE IF sw.jIndex - base > limit - sw.iIndex
    THEN QsortLoop(cells,
                   [SwapCells(sw.q, base, sw.jIndex)
                      EXCEPT !.maxTop = Max2(sw.q.maxTop, Len(stack) + TWO_STEP)],
                   sw.iIndex, limit, stack \o <<base, sw.jIndex>>)
    ELSE QsortLoop(cells,
                   [SwapCells(sw.q, base, sw.jIndex)
                      EXCEPT !.maxTop = Max2(sw.q.maxTop, Len(stack) + TWO_STEP)],
                   base, sw.jIndex, stack \o <<sw.iIndex, limit>>)
\* after the insertion sort: if (top > stack) { top -= TWO_STEP; ... } else break;
QsortPop(cells, q, stack) ==
    IF q.oob \/ Len(stack) = 0 THEN q
    ELSE QsortLoop(cells, q, stack[Len(stack) - 1], stack[Len(stack)],
                   SubSeq(stack, 1, Len(stack) - TWO_STEP))
QsortLoop(cells, q, base, limit, stack) ==
    IF limit - base > QSORT_THRESHOLD
    THEN QsortPush(cells,
                   QsortCellsSweep(cells,
                                   SwapCells(q, base, base + (limit - base) \div TWO_TIMES),
                                   base, base + 1, limit - 1),
                   base, limit, stack)
    ELSE QsortPop(cells, QsortCellsFor(cells, q, base + 1, limit, base), stack)

\* QsortCells(start, num) on the pointer array arr, start given as an index
QsortCells(cells, arr, start, num) ==
    QsortLoop(cells, [arr |-> arr, lo |-> start, hi |-> start + num, oob |-> FALSE, maxTop |-> 0],
              start, start + num, << >>)

\* the k-th cell in block order: SortAllCells walks the blocks with
\* cellPtr = *blockPtr++ and takes min(nb, CELL_BLOCK_SIZE) cells from each
CellPtrAt(k) == Ptr(k \div CELL_BLOCK_SIZE, k % CELL_BLOCK_SIZE)

SortedYLevel(start, num) == [start |-> start, num |-> num]

\* cellPtr->y - minY_ of the k-th cell in block order
YIndex(b, k) == Deref(b.cells_, CellPtrAt(k)).y - b.minY_

\* an index of the fill passes that falls outside the row table of n levels
YIndexBad(b, n) == \E k \in 0..(b.numCells_ - 1) : YIndex(b, k) < 0 \/ YIndex(b, k) >= n

\* "Create the Y-histogram": sortedY_[cellPtr->y - minY_].start++ for every cell.
\* After the pass, level i holds in start the number of cells of row minY_ + i.
YHistogram(b, n) ==
    [i \in 1..n |->
        SortedYLevel(Cardinality({k \in 0..(b.numCells_ - 1) : YIndex(b, k) = i - 1}), 0)]

\* "Convert the Y-histogram into the array of starting indexes": the running sum
\*   start = 0; for each level { value = start_i; start_i = start; start += value; }
RECURSIVE YStartOf(_, _)
YStartOf(sy, i) == IF i = 0 THEN 0 ELSE YStartOf(sy, i - 1) + sy[i].start
YStarts(sy) == [i \in 1..Len(sy) |-> SortedYLevel(YStartOf(sy, i - 1), 0)]

\* "Fill the cell pointer array sorted by Y":
\*   sortedCells_[currY.start + currY.num] = cellPtr; ++currY.num;
\* The k-th cell lands at its row's start plus the number of cells of the same row
\* that precede it in block order.
YSlot(b, sy) ==
    [k \in 0..(b.numCells_ - 1) |->
        sy[YIndex(b, k) + 1].start
        + Cardinality({j \in 0..(k - 1) : YIndex(b, j) = YIndex(b, k)})]
\* the fill pass without ++currY.num: every cell of a row is written to the row's
\* start, the counts stay 0 and the other slots stay unwritten
YScatterNoCount(b, sy, slot) ==
    [sortedY |-> sy,
     arr     |-> [p \in 1..b.numCells_ |->
                     IF \E k \in 0..(b.numCells_ - 1) : sy[YIndex(b, k) + 1].start = p - 1
                     THEN CellPtrAt(CHOOSE k \in 0..(b.numCells_ - 1) :
                                       /\ sy[YIndex(b, k) + 1].start = p - 1
                                       /\ \A j \in 0..(b.numCells_ - 1) :
                                              sy[YIndex(b, j) + 1].start = p - 1 => j <= k)
                     ELSE NullPtr]]
YScatter(b, sy, slot) ==
    [sortedY |-> [i \in 1..Len(sy) |->
                     SortedYLevel(sy[i].start,
                                  Cardinality({k \in 0..(b.numCells_ - 1) : YIndex(b, k) = i - 1}))],
     arr     |-> [p \in 1..b.numCells_ |->
                     CellPtrAt(CHOOSE k \in 0..(b.numCells_ - 1) : slot[k] = p - 1)]]

\* "Finally arrange the X-arrays": QsortCells on every row with num > 0.
\* acc carries the pointer array and the flags of the runs made so far.
SortRowsJoin(acc, q) ==
    [arr |-> q.arr, oob |-> q.oob, maxTop |-> Max2(acc.maxTop, q.maxTop)]
RECURSIVE SortRows(_, _, _, _)
SortRows(cells, sy, acc, i) ==
    IF acc.oob \/ i >= Len(sy) THEN acc
    ELSE IF sy[i + 1].num = 0 THEN SortRows(cells, sy, acc, i + 1)
    ELSE SortRows(cells, sy,
                  SortRowsJoin(acc, QsortCells(cells, acc.arr, sy[i + 1].start, sy[i + 1].num)),
                  i + 1)

\* SortAllCells without the "if (sorted_) return" test and without the re-initialisation
\* of the current cell: every call commits the current cell and sorts again
SortAllCellsAgain(b) ==
    Let(AddCurrentCell(b), LAMBDA b1 :
        IF b1.numCells_ = 0 THEN b1
        ELSE Let(YStarts(YHistogram(b1, b1.maxY_ - b1.minY_ + 1)), LAMBDA sy :
             Let(YSlot(b1, sy), LAMBDA slot :
             Let(YScatter(b1, sy, slot), LAMBDA f :
             Let(SortRows(b1.cells_, f.sortedY,
                          [arr |-> f.arr, oob |-> FALSE, maxTop |-> 0], 0), LAMBDA r :
             [b1 EXCEPT !.sortedCells_ = r.arr, !.sortedY_ = f.sortedY,
                        !.qOob = r.oob, !.qMaxTop = r.maxTop,
                        !.sorted_ = TRUE])))))

\* RasterizerCellsAntiAlias::SortAllCells
\* sortedCells_.Allocate(n) leaves n unwritten pointers (each is written by the fill
\* pass before it is read); sortedY_.Allocate(n) + CleanData() leaves n zeroed levels.
SortAllCells(b) ==
    IF b.sorted_ THEN b
    ELSE Let([AddCurrentCell(b) EXCEPT !.currCell_ = Cell(INT32_MAX, INT32_MAX, 0, 0)],
             LAMBDA b1 :
         IF b1.numCells_ = 0 THEN b1
         ELSE IF YIndexBad(b1, b1.maxY_ - b1.minY_ + 1)
         THEN [b1 EXCEPT !.sortedCells_ = [i \in 1..b1.numCells_ |-> NullPtr],
                         !.sortedY_ = [i \in 1..(b1.maxY_ - b1.minY_ + 1) |-> SortedYLevel(0, 0)],
                         !.badWrite = TRUE, !.sorted_ = TRUE]
         ELSE Let(YStarts(YHistogram(b1, b1.maxY_ - b1.minY_ + 1)), LAMBDA sy :
              Let(YSlot(b1, sy), LAMBDA slot :
              Let(YScatter(b1, sy, slot), LAMBDA f :
              Let(SortRows(b1.cells_, f.sortedY,
                           [arr |-> f.arr, oob |-> FALSE, maxTop |-> 0], 0), LAMBDA r :
              [b1 EXCEPT !.sortedCells_ = r.arr, !.sortedY_ = f.sortedY,
                         !.qOob = r.oob, !.qMaxTop = r.maxTop,
                         !.sorted_ = TRUE])))))

\* RasterizerCellsAntiAlias::GetTotalCells
GetTotalCells(b) == b.numCells_

\* RasterizerCellsAntiAlias::GetSorted
GetSorted(b) == b.sorted_

\* ScanlineNumCells / ScanlineCells read sortedY_[yLevel - minY_]; the read is defined
\* when the index lies in the table
ScanlineDefined(b, yLevel) ==
    yLevel - b.minY_ >= 0 /\ yLevel - b.minY_ < Len(b.sortedY_)

\* RasterizerCellsAntiAlias::ScanlineNumCells
ScanlineNumCells(b, yLevel) == b.sortedY_[yLevel - b.minY_ + 1].num

\* RasterizerCellsAntiAlias::ScanlineCells: the slice of ScanlineNumCells(y) pointers
\* that starts at sortedCells_.Data() + start
ScanlineCells(b, yLevel) ==
    LET lv == b.sortedY_[yLevel - b.minY_ + 1]
    IN  [i \in 1..lv.num |->
            IF lv.start + i <= Len(b.sortedCells_) THEN b.sortedCells_[lv.start + i] ELSE NullPtr]

(* ------------------------------------------------------------------ *)
(* ScanlineHitRegionMeasure                                            *)
(* ------------------------------------------------------------------ *)
\* The measure object is a record of its two data members.  Its arguments are pixel
\* coordinates (a sub-pixel int32_t coordinate >> 8) and span lengths inside one
\* scanline, so x + len stays far inside int32_t.

\* ScanlineHitRegionMeasure::ScanlineHitRegionMeasure(x)
HitConstruct(x) == [xCoordinate_ |-> x, hitMeasureFlags_ |-> FALSE]

\* ScanlineHitRegionMeasure::AddCellInContainer(x, cover)
AddCellInContainer(h, x) ==
    IF h.xCoordinate_ = x THEN [h EXCEPT !.hitMeasureFlags_ = TRUE] ELSE h

\* AddSpanInContainer with the upper test written as xCoordinate_ <= x + len
AddSpanInContainerIncl(h, x, len) ==
    IF h.xCoordinate_ >= x /\ h.xCoordinate_ <= x + len
    THEN [h EXCEPT !.hitMeasureFlags_ = TRUE]
    ELSE h

\* ScanlineHitRegionMeasure::AddSpanInContainer(x, len, covers)
AddSpanInContainer(h, x, len) ==
    IF h.xCoordinate_ >= x /\ h.xCoordinate_ < x + len
    THEN [h EXCEPT !.hitMeasureFlags_ = TRUE]
    ELSE h

\* ScanlineHitRegionMeasure::GetHitMeasure
GetHitMeasure(h) == h.hitMeasureFlags_

(* ------------------------------------------------------------------ *)
(* State                                                               *)
(* ------------------------------------------------------------------ *)
\* the data members of RasterizerCellsAntiAlias
VARIABLES numBlocks_, maxBlocks_, currBlock_, numCells_, cellBlockLimit_,
          cells_, currCellPtr_, sortedCells_, sortedY_, currCell_, styleCell_,
          minX_, minY_, maxX_, maxY_, sorted_
\* bookkeeping of the run (see Construct)
VARIABLES commits, badWrite, guardDx, bodyRuns, astray, qOob, qMaxTop
\* the caller: the last operation called, the segments passed to LineOperate since
\* construction or the last Reset, the LineOperate calls still to come, the Resets
\* made, and the SortAllCells calls made since the last LineOperate or Reset
VARIABLES lastOp, path, budget, nResets, nSorts
\* the data members of a ScanlineHitRegionMeasure, and the calls made on it so far:
\* <<"cell", x, 0>> for AddCellInContainer(x, _), <<"span", x, len>> for
\* AddSpanInContainer(x, len, _)
VARIABLES xCoordinate_, hitMeasureFlags_, added
\* the arguments <<ey, x1, y1, x2, y2>> of a RenderHorizonline call made on its own
VARIABLES hargs

members == <<numBlocks_, maxBlocks_, currBlock_, numCells_, cellBlockLimit_,
             cells_, currCellPtr_, sortedCells_, sortedY_, currCell_, styleCell_,
             minX_, minY_, maxX_, maxY_, sorted_>>
measure == <<xCoordinate_, hitMeasureFlags_, added>>
vars == <<members, commits, badWrite, guardDx, bodyRuns, astray, qOob, qMaxTop,
          lastOp, path, budget, nResets, nSorts, measure, hargs>>

\* the builder as a record, and the assignment of a record to the builder
Self ==
    [numBlocks_ |-> numBlocks_, maxBlocks_ |-> maxBlocks_, currBlock_ |-> currBlock_,
     numCells_ |-> numCells_, cellBlockLimit_ |-> cellBlockLimit_,
     cells_ |-> cells_, currCellPtr_ |-> currCellPtr_,
     sortedCells_ |-> sortedCells_, sortedY_ |-> sortedY_,
     currCell_ |-> currCell_, styleCell_ |-> styleCell_,
     minX_ |-> minX_, minY_ |-> minY_, maxX_ |-> maxX_, maxY_ |-> maxY_,
     sorted_ |-> sorted_,
     commits |-> commits, badWrite |-> badWrite, guardDx |-> guardDx,
     bodyRuns |-> bodyRuns, astray |-> astray, qOob |-> qOob, qMaxTop |-> qMaxTop]

Install(b) ==
    /\ numBlocks_' = b.numBlocks_ /\ maxBlocks_' = b.maxBlocks_
    /\ currBlock_' = b.currBlock_ /\ numCells_' = b.numCells_
    /\ cellBlockLimit_' = b.cellBlockLimit_
    /\ cells_' = b.cells_ /\ currCellPtr_' = b.currCellPtr_
    /\ sortedCells_' = b.sortedCells_ /\ sortedY_' = b.sortedY_
    /\ currCell_' = b.currCell_ /\ styleCell_' = b.styleCell_
    /\ minX_' = b.minX_ /\ minY_' = b.minY_ /\ maxX_' = b.maxX_ /\ maxY_' = b.maxY_
    /\ sorted_' = b.sorted_
    /\ commits' = b.commits /\ badWrite' = b.badWrite /\ guardDx' = b.guardDx
    /\ bodyRuns' = b.bodyRuns /\ astray' = b.astray
    /\ qOob' = b.qOob /\ qMaxTop' = b.qMaxTop

\* the builder right after RasterizerCellsAntiAlias(cellBlockLimit)
Constructed(cellBlockLimit) ==
    LET b == Construct(cellBlockLimit)
    IN  /\ numBlocks_ = b.numBlocks_ /\ maxBlocks_ = b.maxBlocks_
        /\ currBlock_ = b.currBlock_ /\ numCells_ = b.numCells_
        /\ cellBlockLimit_ = b.cellBlockLimit_
        /\ cells_ = b.cells_ /\ currCellPtr_ = b.currCellPtr_
        /\ sortedCells_ = b.sortedCells_ /\ sortedY_ = b.sortedY_
        /\ currCell_ = b.currCell_ /\ styleCell_ = b.styleCell_
        /\ minX_ = b.minX_ /\ minY_ = b.minY_ /\ maxX_ = b.maxX_ /\ maxY_ = b.maxY_
        /\ sorted_ = b.sorted_
        /\ commits = b.commits /\ badWrite = b.badWrite /\ guardDx = b.guardDx
        /\ bodyRuns = b.bodyRuns /\ astray = b.astray
        /\ qOob = b.qOob /\ qMaxTop = b.qMaxTop

(* ------------------------------------------------------------------ *)
(* Bounds and inputs                                                   *)
(* ------------------------------------------------------------------ *)
\* LineOperate calls in one run of Spec, of SpecLong and of SpecSort
MaxLines == 3
MaxLongLines == 3
MaxStrokes == 6
\* Reset calls in one run
MaxResets == 1
\* SortAllCells calls in a row
MaxSorts == 2
\* block limits given to the constructor in Spec: 0 .. MaxLimit
MaxLimit == 3

Seg(x1, y1, x2, y2) == <<x1, y1, x2, y2>>

\* Spec: segments below the dx guard.  Two vertical segments on whole rows (3 cells
\* and 1 cell), one zero-height horizontal edge (no cell), one sloped edge over two
\* rows, one vertical edge along the right border of pixel (0, 0).
SegsShort ==
    { Seg(2597, 0, 2597, 768), Seg(2560, 256, 2560, 512),
      Seg(0, 0, 256, 0), Seg(30, 40, 500, 300), Seg(255, 0, 255, 255) }

\* SpecLong: a triangle whose first edge reaches the dx guard, and a steeper edge
\* over two rows that reaches it too.
SegsLong ==
    { Seg(0, 0, 800, 100), Seg(800, 100, 300, 200), Seg(300, 200, 0, 0),
      Seg(-40, 20, 900, 300) }

\* SpecSort: edges inside row 0.  Stroke(a, c) runs from pixel a to the neighbouring
\* pixel c (two cells); Dot(px) is a short vertical edge inside pixel px (one cell).
Stroke(a, c) == Seg(a * POLY_SUBPIXEL_SCALE + 10, 10, c * POLY_SUBPIXEL_SCALE + 10, 20)
Dot(px) == Seg(px * POLY_SUBPIXEL_SCALE + 10, 10, px * POLY_SUBPIXEL_SCALE + 10, 20)
SegsStrokes == { Stroke(0, 1), Stroke(1, 0), Stroke(1, 2), Stroke(2, 1), Dot(4) }

(* ------------------------------------------------------------------ *)
(* Actions                                                             *)
(* ------------------------------------------------------------------ *)
\* A call of LineOperate(x1, y1, x2, y2).  The caller does not ingest into a builder
\* whose cells are sorted: it resets it first (ingestion does not interleave with
\* sorting or reading).
LineOperateCall(s) ==
    /\ budget > 0
    /\ ~sorted_
    /\ Install(LineOperate([Self EXCEPT !.guardDx = 0], s[1], s[2], s[3], s[4]))
    /\ path' = Append(path, s)
    /\ budget' = budget - 1
    /\ lastOp' = "LineOperate"
    /\ nSorts' = 0
    /\ UNCHANGED <<nResets, measure, hargs>>

LineShort == \E s \in SegsShort : LineOperateCall(s)
LineLong == \E s \in SegsLong : LineOperateCall(s)
LineStroke == \E s \in SegsStrokes : LineOperateCall(s)

\* A call of SortAllCells()
SortAllCellsCall ==
    /\ nSorts < MaxSorts
    /\ Install(SortAllCells(Self))
    /\ lastOp' = "SortAllCells"
    /\ nSorts' = nSorts + 1
    /\ UNCHANGED <<path, budget, nResets, measure, hargs>>

\* A call of Reset()
ResetCall ==
    /\ nResets < MaxResets
    /\ Install(ResetOp(Self))
    /\ path' = << >>
    /\ nResets' = nResets + 1
    /\ nSorts' = 0
    /\ lastOp' = "Reset"
    /\ UNCHANGED <<budget, measure, hargs>>

Caller(n) ==
    lastOp = "Construct" /\ path = << >> /\ budget = n /\ nResets = 0 /\ nSorts = 0

\* a measure object right after ScanlineHitRegionMeasure(x): no call made on it
HitConstructed(x) ==
    /\ xCoordinate_ = HitConstruct(x).xCoordinate_
    /\ hitMeasureFlags_ = HitConstruct(x).hitMeasureFlags_
    /\ added = << >>
\* the specifications of the builder hold one idle measure object and make no
\* RenderHorizonline call of their own
Idle == HitConstructed(0) /\ hargs = << >>

\* Spec: builders of every small block limit, short segments, sorting and reset
Init == (\E limit \in 0..MaxLimit : Constructed(limit)) /\ Caller(MaxLines) /\ Idle
Next == LineShort \/ SortAllCellsCall \/ ResetCall
Spec == Init /\ [][Next]_vars

\* SpecLong: a builder of the default block limit, segments that reach the dx guard
InitLong == Constructed(DefaultCellBlockLimit) /\ Caller(MaxLongLines) /\ Idle
NextLong == LineLong \/ SortAllCellsCall \/ ResetCall
SpecLong == InitLong /\ [][NextLong]_vars

\* SpecSort: a builder of the default block limit, many cells in one row
InitSort == Constructed(DefaultCellBlockLimit) /\ Caller(MaxStrokes) /\ Idle
NextSort == LineStroke \/ SortAllCellsCall
SpecSort == InitSort /\ [][NextSort]_vars

\* the builder's members and the bookkeeping of its run
builder == <<members, commits, badWrite, guardDx, bodyRuns, astray, qOob, qMaxTop>>

\* SpecHit: one ScanlineHitRegionMeasure(X) and the calls made on it
\* calls in one run
MaxAdds == 3
\* the X of the constructor, the x of AddCellInContainer, the <<x, len>> of
\* AddSpanInContainer: spans that end right at X, that hold X, empty and negative ones
HitXs == {-1, 0, 2}
CellXs == {-1, 0, 1, 2}
Spans == { <<-2, 1>>, <<-2, 2>>, <<0, 0>>, <<0, 3>>, <<1, 1>>, <<2, -1>> }

HitSelf == [xCoordinate_ |-> xCoordinate_, hitMeasureFlags_ |-> hitMeasureFlags_]
HitInstall(h) ==
    /\ xCoordinate_' = h.xCoordinate_
    /\ hitMeasureFlags_' = h.hitMeasureFlags_

\* A call of AddCellInContainer(x, cover)
AddCellInContainerCall ==
    \E x \in CellXs :
        /\ budget > 0
        /\ HitInstall(AddCellInContainer(HitSelf, x))
        /\ added' = Append(added, <<"cell", x, 0>>)
        /\ budget' = budget - 1
        /\ lastOp' = "AddCellInContainer"
        /\ UNCHANGED <<builder, path, nResets, nSorts, hargs>>

\* A call of AddSpanInContainer(x, len, covers)
AddSpanInContainerCall ==
    \E sp \in Spans :
        /\ budget > 0
        /\ HitInstall(AddSpanInContainer(HitSelf, sp[1], sp[2]))
        /\ added' = Append(added, <<"span", sp[1], sp[2]>>)
        /\ budget' = budget - 1
        /\ lastOp' = "AddSpanInContainer"
        /\ UNCHANGED <<builder, path, nResets, nSorts, hargs>>

InitHit ==
    /\ Constructed(DefaultCellBlockLimit) /\ Caller(MaxAdds)
    /\ (\E x \in HitXs : HitConstructed(x)) /\ hargs = << >>
NextHit == AddCellInContainerCall \/ AddSpanInContainerCall
SpecHit == InitHit /\ [][NextHit]_vars

\* SpecHline: one RenderHorizonline(ey, x1, y1, x2, y2) call on a fresh builder of
\* the default block limit whose current cell has been set to (x1 >> 8, ey).
\* x1, x2 to the left and to the right of each other, in the same column, in
\* neighbouring columns and several columns apart, on negative coordinates too;
\* y1, y2 over 0 .. 256 in both directions and equal.
HlineXs == {-300, 10, 255, 256, 700, 1500}
HlineYs == {0, 100, 256}
HlineArgs ==
    { <<ey, x1, y1, x2, y2>> :
        ey \in {-1, 0}, x1 \in HlineXs, y1 \in HlineYs, x2 \in HlineXs, y2 \in HlineYs }

\* A call of RenderHorizonline(ey, x1, y1, x2, y2) with the current cell set to the
\* pixel of (x1, ey), as LineOperate makes it
RenderHorizonlineCall ==
    /\ budget > 0
    /\ Install(RenderHorizonline(
                   SetCurrentCell(Self, Shr(hargs[2], POLY_SUBPIXEL_SHIFT), hargs[1]),
                   hargs[1], hargs[2], hargs[3], hargs[4], hargs[5]))
    /\ budget' = budget - 1
    /\ lastOp' = "RenderHorizonline"
    /\ UNCHANGED <<path, nResets, nSorts, measure, hargs>>

InitHline ==
    /\ Constructed(DefaultCellBlockLimit) /\ Caller(1)
    /\ HitConstructed(0) /\ hargs \in HlineArgs
NextHline == RenderHorizonlineCall
SpecHline == InitHline /\ [][NextHline]_vars

\* SpecQsort: QsortCells on rows of every length 1 .. MaxRow.  The shape is two rows
\* of one-pixel strokes drawn in turn, row 0 then row 1, so that each row holds the
\* sequence of columns x_j = (a * j) % m, j = 0, 1, ...: constant (m = 1), two and
\* three values repeated, rising, falling and saw-tooth sequences.  hargs = <<a, m>>.
\* SortAllCells then calls QsortCells once per row.
MaxRow == 22
QsortMuls == {1, 2, 5, 22}
QsortMods == {1, 2, 3, 6, 23}

\* a stroke inside pixel (px, py)
DotAt(px, py) ==
    Seg(px * POLY_SUBPIXEL_SCALE + 10, py * POLY_SUBPIXEL_SCALE + 10,
        px * POLY_SUBPIXEL_SCALE + 10, py * POLY_SUBPIXEL_SCALE + 20)
\* the k-th stroke (k = 0, 1, ...) of the shape of multiplier a and modulus m
RowStroke(k, a, m) == DotAt((a * (k \div 2)) % m, k % 2)

\* A call of LineOperate on the next stroke of the shape
LineRowStroke ==
    /\ budget > 0
    /\ ~sorted_
    /\ \E s \in { RowStroke(Len(path), hargs[1], hargs[2]) } :
          /\ Install(LineOperate([Self EXCEPT !.guardDx = 0], s[1], s[2], s[3], s[4]))
          /\ path' = Append(path, s)
    /\ budget' = budget - 1
    /\ lastOp' = "LineOperate"
    /\ nSorts' = 0
    /\ UNCHANGED <<nResets, measure, hargs>>

InitQsort ==
    /\ Constructed(DefaultCellBlockLimit) /\ Caller(2 * MaxRow)
    /\ HitConstructed(0) /\ hargs \in QsortMuls \X QsortMods
NextQsort == LineRowStroke \/ SortAllCellsCall
SpecQsort == InitQsort /\ [][NextQsort]_vars

\* SpecLine: one LineOperate(x1, y1, x2, y2) call on a fresh builder of the default
\* block limit, hargs = <<x1, y1, x2, y2>>.  The end points run over negative and
\* positive coordinates, to the left and to the right, up and down, in the same
\* pixel, row or column, several rows and columns apart, and up to more than four
\* times DX_LIMIT apart in x.
LineXs == {-600, 0, 100, 300, 1500}
LineYs == {-300, 0, 100, 256, 700}
LineArgs == { <<x1, y1, x2, y2>> : x1 \in LineXs, y1 \in LineYs, x2 \in LineXs, y2 \in LineYs }

\* A call of LineOperate(x1, y1, x2, y2)
LineOperateOnce ==
    /\ budget > 0
    /\ Install(LineOperate([Self EXCEPT !.guardDx = 0], hargs[1], hargs[2], hargs[3], hargs[4]))
    /\ path' = Append(path, hargs)
    /\ budget' = budget - 1
    /\ lastOp' = "LineOperate"
    /\ nSorts' = 0
    /\ UNCHANGED <<nResets, measure, hargs>>

InitLine ==
    /\ Constructed(DefaultCellBlockLimit) /\ Caller(1)
    /\ HitConstructed(0) /\ hargs \in LineArgs
NextLine == LineOperateOnce
SpecLine == InitLine /\ [][NextLine]_vars

(* ------------------------------------------------------------------ *)
(* What a caller observes                                               *)
(* ------------------------------------------------------------------ *)
\* the k-th stored cell (k = 1 .. numCells_), in the order the blocks hold them
StoredCell(k) == Deref(cells_, CellPtrAt(k - 1))
\* the stored cells of row y, as pointers
RowPtrs(y) == { CellPtrAt(k - 1) : k \in { j \in 1..numCells_ : StoredCell(j).y = y } }
\* the rows of the bounding box (empty while minY_ > maxY_)
Rows == minY_..maxY_

\* the sum of cover over the stored cells 1 .. k that lie in row y
RECURSIVE RowCover(_, _)
RowCover(y, k) ==
    IF k = 0 THEN 0
    ELSE RowCover(y, k - 1) + (IF StoredCell(k).y = y THEN StoredCell(k).cover ELSE 0)

\* the sum of cover over the stored cells 1 .. k
RECURSIVE TotalCover(_)
TotalCover(k) == IF k = 0 THEN 0 ELSE TotalCover(k - 1) + StoredCell(k).cover

\* the slices of the rows y .. maxY_, one after the other
RECURSIVE SlicesFrom(_)
SlicesFrom(y) ==
    IF y > maxY_ THEN << >> ELSE ScanlineCells(Self, y) \o SlicesFrom(y + 1)

\* a pointer to a stored cell
IsStoredPtr(p) ==
    /\ p.blk >= 0 /\ p.slot >= 0 /\ p.slot < CELL_BLOCK_SIZE
    /\ p.blk * CELL_BLOCK_SIZE + p.slot < numCells_

\* the pointers of the sequence sl designate stored cells of non-decreasing x
SliceOrdered(sl) ==
    /\ \A i \in 1..Len(sl) : IsStoredPtr(sl[i])
    /\ \A i \in 1..(Len(sl) - 1) : Deref(cells_, sl[i]).x <= Deref(cells_, sl[i + 1]).x

\* the segments of p form a closed polygon: each one starts where the one before
\* ends, and the last one ends where the first one starts
ClosedPolygon(p) ==
    /\ Len(p) >= 1
    /\ \A i \in 1..(Len(p) - 1) : p[i][3] = p[i + 1][1] /\ p[i][4] = p[i + 1][2]
    /\ p[Len(p)][3] = p[1][1] /\ p[Len(p)][4] = p[1][2]

\* the signed vertical sub-pixel extent of segment s inside row y
RowExtent(s, y) ==
    LET lo == y * POLY_SUBPIXEL_SCALE
        hi == (y + 1) * POLY_SUBPIXEL_SCALE
    IN  Max2(lo, Min2(hi, s[4])) - Max2(lo, Min2(hi, s[2]))

\* the cover of the current (not yet committed) cell if it lies in row y
CurrCover(y) == IF currCell_.y = y THEN currCell_.cover ELSE 0

\* segment s is vertical and runs from row boundary a*256 up to row boundary b*256
WholeRowVertical(s) ==
    /\ s[1] = s[3] /\ s[2] < s[4]
    /\ s[2] % POLY_SUBPIXEL_SCALE = 0 /\ s[4] % POLY_SUBPIXEL_SCALE = 0

\* the pixel coordinates (coordinate >> 8) of the end points of the segments of p:
\* i = 1 for x, i = 2 for y
EndPixels(p, i) ==
    { Shr(p[k][i], POLY_SUBPIXEL_SHIFT) : k \in 1..Len(p) }
        \cup { Shr(p[k][i + 2], POLY_SUBPIXEL_SHIFT) : k \in 1..Len(p) }
SetMin(S) == CHOOSE m \in S : \A n \in S : m <= n
SetMax(S) == CHOOSE m \in S : \A n \in S : m >= n

\* the sum of the counts of the first i entries of the row table
RECURSIVE CountsUpTo(_)
CountsUpTo(i) == IF i = 0 THEN 0 ELSE CountsUpTo(i - 1) + sortedY_[i].num

\* the i-th call made on the measure object covers X = xCoordinate_: a cell at X, or
\* a span [x, x + len) that holds X
CoversX(i) ==
    \/ added[i][1] = "cell" /\ added[i][2] = xCoordinate_
    \/ /\ added[i][1] = "span"
       /\ added[i][2] <= xCoordinate_ /\ xCoordinate_ < added[i][2] + added[i][3]

(* ------------------------------------------------------------------ *)
(* Properties                                                          *)
(* ------------------------------------------------------------------ *)

\* C1: after SortAllCells, for every row y of [minY, maxY] the slice ScanlineCells(y)
\* is ordered by non-decreasing x, and the slices of all rows together are a
\* permutation of the stored cells (each stored cell once, no other pointer).
C1_SlicesSortedPermutation ==
    lastOp = "SortAllCells" =>
        /\ \A y \in Rows : ScanlineDefined(Self, y) /\ SliceOrdered(ScanlineCells(Self, y))
        /\ Len(SlicesFrom(minY_)) = numCells_
        /\ \A k \in 1..numCells_ : \E i \in 1..Len(SlicesFrom(minY_)) :
               SlicesFrom(minY_)[i] = CellPtrAt(k - 1)

\* C2: for a closed polygon ingested into a fresh or reset builder and finalized with
\* SortAllCells, the covers of the committed cells of every row sum to zero.
C2_ClosedPolygonRowCoverZero ==
    (lastOp = "SortAllCells" /\ ClosedPolygon(path)) =>
        \A y \in Rows : RowCover(y, numCells_) = 0

\* C3: a segment with |x2 - x1| >= DX_LIMIT is counted once: the cover one LineOperate
\* call adds is y2 - y1 in total, and in every row the segment's vertical extent
\* inside that row.
C3_BisectedCountedOnce ==
    (lastOp = "LineOperate" /\ Len(path) = 1 /\ Abs(path[1][3] - path[1][1]) >= DX_LIMIT) =>
        /\ TotalCover(numCells_) + currCell_.cover = path[1][4] - path[1][2]
        /\ \A y \in Rows : RowCover(y, numCells_) + CurrCover(y) = RowExtent(path[1], y)

\* C4: after Reset, a new shape and SortAllCells, the scanline view shows only the new
\* shape: for every row y of the new bounding box ScanlineNumCells(y) is the number
\* of cells the new shape committed in row y and ScanlineCells(y) holds exactly them.
C4_ViewOnlyNewShape ==
    (lastOp = "SortAllCells" /\ nResets >= 1) =>
        \A y \in Rows :
            /\ ScanlineDefined(Self, y)
            /\ ScanlineNumCells(Self, y) = Cardinality(RowPtrs(y))
            /\ { ScanlineCells(Self, y)[i] : i \in 1..ScanlineNumCells(Self, y) } = RowPtrs(y)

\* C5: after Reset the retained blocks are reused: a shape that produces n non-zero
\* cells with n <= cellBlockLimit * CELL_BLOCK_SIZE has all n cells stored, however
\* many blocks the shapes before it allocated.
C5_ResetReusesBlocks ==
    (nResets >= 1 /\ lastOp = "SortAllCells"
        /\ Len(commits) <= cellBlockLimit_ * CELL_BLOCK_SIZE) =>
        numCells_ = Len(commits)

\* C6: the block limit is a silent, non-corrupting cutoff.  In every state
\* numBlocks_ <= cellBlockLimit_ and numCells_ <= cellBlockLimit_ * CELL_BLOCK_SIZE;
\* the stored cells are a prefix of the non-zero cells in commit order; a limit of 0
\* stores nothing and makes no store through the write pointer; and once a cell has
\* been dropped, no later commit before the next Reset changes the pool.
C6_LimitSilentCutoff ==
    [][ LET Cutoff == /\ numBlocks_ <= cellBlockLimit_
                      /\ numCells_ <= cellBlockLimit_ * CELL_BLOCK_SIZE
                      /\ numCells_ <= Len(commits)
                      /\ \A k \in 1..numCells_ : StoredCell(k) = commits[k]
                      /\ ~badWrite
                      /\ cellBlockLimit_ = 0 =>
                            (numCells_ = 0 /\ numBlocks_ = 0 /\ currCellPtr_ = NullPtr)
        IN  /\ Cutoff
            /\ Cutoff'
            /\ (Len(commits) > numCells_ /\ lastOp' # "Reset") =>
                  UNCHANGED <<numBlocks_, maxBlocks_, currBlock_, numCells_, cells_,
                              currCellPtr_>> ]_vars
\* a cutoff has happened: cells are stored, the pool has grown to the limit, and a
\* later non-zero cell of the same shape has been dropped
C6_Witness ==
    /\ nResets = 0 /\ numCells_ > 0 /\ numBlocks_ = cellBlockLimit_
    /\ Len(commits) > numCells_

\* C7: the stepping code after the guard of LineOperate runs only for segments with
\* |x2 - x1| < DX_LIMIT.
C7_StepsBelowGuard == guardDx < DX_LIMIT

\* C8: SortAllCells is idempotent: a second call, with no LineOperate or Reset in
\* between, leaves every data member unchanged (the cell count, the stored cells,
\* every row's count and start, the sorted pointer array, the current cell).
C8_SortIdempotent ==
    [][ (lastOp = "SortAllCells" /\ lastOp' = "SortAllCells") => UNCHANGED members ]_vars
\* SortAllCells has been called twice in a row on a shape with cells
C8_Witness == nSorts = 2 /\ lastOp = "SortAllCells" /\ numCells_ > 0 /\ sorted_

\* C9 as stated: after LineOperate calls and SortAllCells every committed cell has
\* |area| <= 2 * scale * scale.
C9_AreaBound ==
    lastOp = "SortAllCells" =>
        \A k \in 1..numCells_ :
            Abs(StoredCell(k).area) <= 2 * POLY_SUBPIXEL_SCALE * POLY_SUBPIXEL_SCALE
\* C9 amended: one run of the stepping code adds at most 2 * scale * scale to the
\* |area| of a cell, so after SortAllCells every committed cell has
\* |area| <= 2 * scale * scale * k, k the number of runs of the stepping code since
\* construction or Reset.
C9_AreaBoundPerRun ==
    lastOp = "SortAllCells" =>
        \A k \in 1..numCells_ :
            Abs(StoredCell(k).area)
                <= 2 * POLY_SUBPIXEL_SCALE * POLY_SUBPIXEL_SCALE * bodyRuns
\* a committed cell that accumulated several segments and exceeds 2 * scale * scale
C9_Witness ==
    /\ lastOp = "SortAllCells" /\ bodyRuns >= 2
    /\ \E k \in 1..numCells_ :
           Abs(StoredCell(k).area) > 2 * POLY_SUBPIXEL_SCALE * POLY_SUBPIXEL_SCALE

\* C10: on a fresh or reset builder a vertical segment (x, a*256) - (x, b*256), a < b,
\* followed by SortAllCells commits exactly b - a cells, at column x >> 8 and rows
\* a .. b-1, each with cover 256 and area 2 * (x & 255) * 256 (the pool's capacity
\* cellBlockLimit * CELL_BLOCK_SIZE being at least b - a).
C10_VerticalSegmentCells ==
    (lastOp = "SortAllCells" /\ Len(path) = 1 /\ WholeRowVertical(path[1])
        /\ CDiv(path[1][4] - path[1][2], POLY_SUBPIXEL_SCALE)
               <= cellBlockLimit_ * CELL_BLOCK_SIZE) =>
        /\ numCells_ = CDiv(path[1][4] - path[1][2], POLY_SUBPIXEL_SCALE)
        /\ \A k \in 1..numCells_ :
               StoredCell(k) = Cell(Shr(path[1][1], POLY_SUBPIXEL_SHIFT),
                                    Shr(path[1][2], POLY_SUBPIXEL_SHIFT) + k - 1,
                                    POLY_SUBPIXEL_SCALE,
                                    2 * AndMask(path[1][1], POLY_SUBPIXEL_SHIFT)
                                      * POLY_SUBPIXEL_SCALE)

\* C11 as stated: on a fresh builder LineOperate(0, 0, 256, 0) followed by
\* SortAllCells yields exactly one committed cell, at pixel (0, 0), with cover 0 and
\* a non-zero area (GetTotalCells() = 1).
C11_FlatEdgeOneCell ==
    (lastOp = "SortAllCells" /\ nResets = 0 /\ path = <<Seg(0, 0, 256, 0)>>
        /\ cellBlockLimit_ >= 1) =>
        /\ GetTotalCells(Self) = 1
        /\ StoredCell(1).x = 0 /\ StoredCell(1).y = 0
        /\ StoredCell(1).cover = 0 /\ StoredCell(1).area # 0
\* C11 amended: on a fresh builder LineOperate(0, 0, 256, 0) followed by SortAllCells
\* yields no committed cell (GetTotalCells() = 0): the flat move adds cover 0 and
\* area 0, no non-zero cell is handed to the pool, and the bounding box is the
\* pixels (0, 0) .. (1, 0).
C11_FlatEdgeNoCell ==
    (lastOp = "SortAllCells" /\ nResets = 0 /\ path = <<Seg(0, 0, 256, 0)>>) =>
        /\ GetTotalCells(Self) = 0
        /\ commits = << >>
        /\ minX_ = 0 /\ maxX_ = 1 /\ minY_ = 0 /\ maxY_ = 0
\* the flat edge has been ingested into a fresh builder with room for cells, and
\* SortAllCells has been called
C11_Witness ==
    /\ lastOp = "SortAllCells" /\ nResets = 0 /\ path = <<Seg(0, 0, 256, 0)>>
    /\ cellBlockLimit_ >= 1 /\ bodyRuns = 1

\* C12: GetMinX/GetMinY/GetMaxX/GetMaxY are the minimum and maximum over the pixel
\* coordinates of the end points of all segments ingested since construction or the
\* last Reset, whichever cells were stored or dropped; with no segment ingested
\* (fresh, or right after Reset) the box is min = INT32_MAX, max = INT32_MIN.
C12_BoxOfEndpoints ==
    IF path = << >>
    THEN /\ minX_ = INT32_MAX /\ minY_ = INT32_MAX
         /\ maxX_ = INT32_MIN /\ maxY_ = INT32_MIN
    ELSE /\ minX_ = SetMin(EndPixels(path, 1)) /\ maxX_ = SetMax(EndPixels(path, 1))
         /\ minY_ = SetMin(EndPixels(path, 2)) /\ maxY_ = SetMax(EndPixels(path, 2))
\* after a Reset two segments have been ingested, cells have been dropped, and the
\* box is wider and higher than one pixel
C12_Witness ==
    /\ nResets = 1 /\ Len(path) = 2 /\ Len(commits) > numCells_
    /\ minX_ < maxX_ /\ minY_ < maxY_

\* C13: after SortAllCells on a shape with at least one committed cell the row table
\* has maxY - minY + 1 entries; for every row y of [minY, maxY] ScanlineNumCells(y)
\* is the number of committed cells of that row and every cell of ScanlineCells(y)
\* has that y; the start of row minY is 0, the start of row y + 1 is start(y) +
\* count(y), and the counts of all rows sum to GetTotalCells().
C13_RowTable ==
    (lastOp = "SortAllCells" /\ GetTotalCells(Self) > 0) =>
        /\ Len(sortedY_) = maxY_ - minY_ + 1
        /\ \A y \in Rows :
               /\ ScanlineDefined(Self, y)
               /\ ScanlineNumCells(Self, y) = Cardinality(RowPtrs(y))
               /\ \A i \in 1..ScanlineNumCells(Self, y) :
                      /\ IsStoredPtr(ScanlineCells(Self, y)[i])
                      /\ Deref(cells_, ScanlineCells(Self, y)[i]).y = y
        /\ sortedY_[1].start = 0
        /\ \A i \in 1..(Len(sortedY_) - 1) :
               sortedY_[i + 1].start = sortedY_[i].start + sortedY_[i].num
        /\ CountsUpTo(Len(sortedY_)) = GetTotalCells(Self)
\* a sorted shape over several rows, one row with two cells or more, one row empty
C13_Witness ==
    /\ lastOp = "SortAllCells" /\ sorted_ /\ minY_ < maxY_
    /\ \E y \in Rows : ScanlineNumCells(Self, y) >= 2
    /\ \E y \in Rows : ScanlineNumCells(Self, y) = 0

\* C14: committed cells are stable for the lifetime of the shape: in every step other
\* than Reset (a commit, a block allocation, a growth of the block table, a
\* SortAllCells call) every cell stored at (block, slot) stays there with the same
\* x, y, cover and area, and the cell count does not shrink; SortAllCells changes
\* the blocks only by storing the current cell behind the cells stored so far.
C14_CellsStable ==
    [][ lastOp' # "Reset" =>
          /\ numCells_' >= numCells_
          /\ numBlocks_' >= numBlocks_
          /\ \A k \in 1..numCells_ :
                 cells_'[CellPtrAt(k - 1).blk + 1][CellPtrAt(k - 1).slot + 1] = StoredCell(k)
          /\ lastOp' = "SortAllCells" => numCells_' <= numCells_ + 1 ]_vars
\* cells fill three blocks, the block table has grown once, and the shape is sorted
C14_Witness ==
    /\ lastOp = "SortAllCells" /\ sorted_
    /\ numBlocks_ >= 3 /\ maxBlocks_ > CELL_BLOCK_POOL
    /\ numCells_ > 2 * CELL_BLOCK_SIZE

\* C15: the sort phase runs once per shape, guarded by the sorted flag: after any
\* SortAllCells call GetSorted() is true, it stays true until Reset, a further
\* SortAllCells call before Reset does no work, and Reset sets GetSorted() to false.
C15_SortOncePerShape ==
    [][ /\ lastOp' = "SortAllCells" => sorted_'
        /\ (sorted_ /\ lastOp' # "Reset") => sorted_'
        /\ (sorted_ /\ lastOp' = "SortAllCells") => UNCHANGED members
        /\ lastOp' = "Reset" => ~sorted_' ]_vars

\* C16: a cell whose area and cover are both 0 at commit is not stored: in every
\* state every stored cell has area # 0 or cover # 0, and the sentinel current cell
\* (x = y = INT32_MAX) of construction, Reset and SortAllCells is never stored.
C16_NoZeroCellStored ==
    \A k \in 1..numCells_ :
        /\ StoredCell(k).area # 0 \/ StoredCell(k).cover # 0
        /\ ~(StoredCell(k).x = INT32_MAX /\ StoredCell(k).y = INT32_MAX)
\* after a Reset a shape with a flat edge (whose cells are zero at commit) and with
\* stored cells has been sorted, the current cell being the sentinel again
C16_Witness ==
    /\ nResets = 1 /\ lastOp = "SortAllCells" /\ numCells_ >= 2
    /\ currCell_ = Initial
    /\ \E i \in 1..Len(path) : path[i] = Seg(0, 0, 256, 0)

\* C17: for ScanlineHitRegionMeasure(X), after any sequence of AddCellInContainer and
\* AddSpanInContainer calls GetHitMeasure() is true exactly if some added cell had
\* x = X or some added span had x <= X < x + len; the flag starts false and, once
\* true, stays true.
C17_HitMeasure ==
    [][ LET Hit == GetHitMeasure(HitSelf) <=> (\E i \in 1..Len(added) : CoversX(i))
        IN  /\ Hit
            /\ Hit'
            /\ hitMeasureFlags_ => hitMeasureFlags_'
            /\ xCoordinate_' = xCoordinate_ ]_vars
\* a span (and no cell) has covered X, and a later call that does not cover X has
\* left the flag set
C17_Witness ==
    /\ hitMeasureFlags_ /\ Len(added) = 3
    /\ ~CoversX(3)
    /\ \E i \in 1..2 : added[i][1] = "span" /\ CoversX(i)
    /\ \A i \in 1..3 : added[i][1] = "cell" => ~CoversX(i)

\* C18 as stated: after LineOperate calls and SortAllCells no two committed cells have
\* the same (x, y).
C18_OneCellPerPixel ==
    lastOp = "SortAllCells" =>
        \A j \in 1..numCells_ : \A k \in 1..numCells_ :
            (StoredCell(j).x = StoredCell(k).x /\ StoredCell(j).y = StoredCell(k).y) => j = k
\* C18 amended: committed cells can share (x, y) (a pixel the path enters again gets
\* a further cell); after SortAllCells on a shape with at least one committed cell
\* the cells of equal x of a row are adjacent in the row's slice.
C18_EqualXAdjacent ==
    (lastOp = "SortAllCells" /\ numCells_ > 0) =>
        \A y \in Rows :
            /\ ScanlineDefined(Self, y)
            /\ \A i \in 1..ScanlineNumCells(Self, y) : IsStoredPtr(ScanlineCells(Self, y)[i])
            /\ \A i \in 1..ScanlineNumCells(Self, y) : \A k \in i..ScanlineNumCells(Self, y) :
                   Deref(cells_, ScanlineCells(Self, y)[i]).x
                       = Deref(cells_, ScanlineCells(Self, y)[k]).x
                   => \A j \in i..k :
                          Deref(cells_, ScanlineCells(Self, y)[j]).x
                              = Deref(cells_, ScanlineCells(Self, y)[i]).x
\* a sorted shape with two committed cells at the same pixel, stored with a cell of
\* the same row and another x between them
C18_Witness ==
    /\ lastOp = "SortAllCells" /\ sorted_
    /\ \E j \in 1..numCells_ : \E m \in 1..numCells_ : \E k \in 1..numCells_ :
           /\ j < m /\ m < k
           /\ StoredCell(j).x = StoredCell(k).x /\ StoredCell(j).y = StoredCell(k).y
           /\ StoredCell(m).y = StoredCell(j).y /\ StoredCell(m).x # StoredCell(j).x

\* C19: RenderHorizonline(ey, x1, y1, x2, y2), called with the current cell at
\* (x1 >> 8, ey) and 0 <= y1, y2 <= 256, distributes the vertical delta exactly: the
\* cover it adds over all the columns it visits sums to y2 - y1, for x1 and x2 in
\* either direction, in the same column or not; every cell it touches has row ey and
\* a column between those of x1 and x2; on return the current cell is at (x2 >> 8, ey).
C19_HlineExactCover ==
    lastOp = "RenderHorizonline" =>
        /\ numCells_ = Len(commits)
        /\ TotalCover(numCells_) + currCell_.cover = hargs[5] - hargs[3]
        /\ \A k \in 1..numCells_ :
               /\ StoredCell(k).y = hargs[1]
               /\ StoredCell(k).x >= Min2(Shr(hargs[2], POLY_SUBPIXEL_SHIFT),
                                         Shr(hargs[4], POLY_SUBPIXEL_SHIFT))
               /\ StoredCell(k).x <= Max2(Shr(hargs[2], POLY_SUBPIXEL_SHIFT),
                                         Shr(hargs[4], POLY_SUBPIXEL_SHIFT))
        /\ currCell_.y = hargs[1]
        /\ currCell_.x = Shr(hargs[4], POLY_SUBPIXEL_SHIFT)
\* a call that runs to the left over several columns with a falling y and has
\* committed three cells or more
C19_Witness ==
    /\ lastOp = "RenderHorizonline"
    /\ hargs[4] < hargs[2] /\ hargs[5] < hargs[3]
    /\ numCells_ >= 3

\* C20: in every state every stored cell lies inside the bounding box, minX <= x <=
\* maxX and minY <= y <= maxY; hence every index cell.y - minY that SortAllCells
\* uses on the row table lies in [0, maxY - minY] and no access falls outside it.
C20_CellsInsideBox ==
    /\ \A k \in 1..numCells_ :
           /\ minX_ <= StoredCell(k).x /\ StoredCell(k).x <= maxX_
           /\ minY_ <= StoredCell(k).y /\ StoredCell(k).y <= maxY_
           /\ YIndex(Self, k - 1) >= 0 /\ YIndex(Self, k - 1) <= maxY_ - minY_
    /\ ~badWrite
\* a sorted shape over several rows and columns with stored cells on each of the four
\* borders of the box
C20_Witness ==
    /\ lastOp = "SortAllCells" /\ sorted_ /\ numCells_ >= 3
    /\ minX_ < maxX_ /\ minY_ < maxY_
    /\ \E k \in 1..numCells_ : StoredCell(k).x = minX_
    /\ \E k \in 1..numCells_ : StoredCell(k).x = maxX_
    /\ \E k \in 1..numCells_ : StoredCell(k).y = minY_
    /\ \E k \in 1..numCells_ : StoredCell(k).y = maxY_

\* C21: the structure of the block pool, after any sequence of LineOperate,
\* SortAllCells and Reset: currBlock_ <= numBlocks_ <= maxBlocks_; currBlock_ is
\* numCells_ / CELL_BLOCK_SIZE rounded up; the stored cells fill the blocks
\* 0 .. currBlock_ - 1 densely in the order they were committed (the k-th stored
\* cell is the k-th committed one and lies at block k / CELL_BLOCK_SIZE, slot
\* k % CELL_BLOCK_SIZE); inside a block the write pointer designates the slot of the
\* next cell; no store went through a null pointer or outside an allocated block.
C21_PoolStructure ==
    /\ currBlock_ <= numBlocks_ /\ numBlocks_ <= maxBlocks_
    /\ Len(cells_) = numBlocks_
    /\ currBlock_ = (numCells_ + CELL_BLOCK_SIZE - 1) \div CELL_BLOCK_SIZE
    /\ numCells_ <= Len(commits)
    /\ \A k \in 1..numCells_ : StoredCell(k) = commits[k]
    /\ AndMask(numCells_, CELL_BLOCK_SHIFT) # 0 => currCellPtr_ = CellPtrAt(numCells_)
    /\ ~badWrite
\* a second shape, stored after Reset in blocks the first shape allocated, with a
\* block of the first shape still unused
C21_Witness ==
    /\ nResets = 1 /\ numCells_ > 0 /\ currBlock_ < numBlocks_
    /\ AndMask(numCells_, CELL_BLOCK_SHIFT) # 0

\* floor(log2(n)) for n >= 1
RECURSIVE Log2(_)
Log2(n) == IF n <= 1 THEN 0 ELSE 1 + Log2(n \div 2)

\* C22: QsortCells(start, num) with num >= 1 stays inside its range for every input,
\* repeated x values included: every element read, compared or exchanged by the
\* median-of-three step, the two partition scans and the insertion sort lies in
\* [start, start + num); the number of (base, limit) pairs on its stack never exceeds
\* floor(log2(num)), and the stack of stackSize slots is never overrun.
C22_QsortInBounds ==
    (lastOp = "SortAllCells" /\ numCells_ > 0) =>
        /\ ~qOob
        /\ qMaxTop <= stackSize
        /\ \E y \in Rows : ScanlineNumCells(Self, y) >= 1
                           /\ qMaxTop \div TWO_STEP <= Log2(ScanlineNumCells(Self, y))
\* a row of more than twice QSORT_THRESHOLD cells of one x value has been sorted with
\* two pairs on the stack
C22_Witness ==
    /\ lastOp = "SortAllCells" /\ ~qOob
    /\ ScanlineDefined(Self, 0)
    /\ ScanlineNumCells(Self, 0) > 2 * QSORT_THRESHOLD
    /\ \A k \in 1..numCells_ : StoredCell(k).x = StoredCell(1).x
    /\ qMaxTop = 2 * TWO_STEP

\* C23: a commit of a cell with area == 0 and cover == 0 drops the cell but still
\* advances or allocates storage: at least one of numBlocks_, currBlock_, the write
\* pointer or numCells_ changes.  Observed on the commit SortAllCells makes of the
\* current cell (its only commit) when the shape is not sorted yet.
C23_ZeroCommitAdvances ==
    [][(lastOp' = "SortAllCells" /\ ~sorted_ /\ currCell_.area = 0 /\ currCell_.cover = 0)
          => <<numBlocks_, currBlock_, currCellPtr_, numCells_>>'
                # <<numBlocks_, currBlock_, currCellPtr_, numCells_>>]_vars
\* C23 (amended): a commit of a cell with area == 0 and cover == 0 drops the cell and
\* leaves the storage as it is: numBlocks_, maxBlocks_, currBlock_, the write pointer,
\* numCells_ and the blocks do not change.
C23_ZeroCommitNoEffect ==
    [][(lastOp' = "SortAllCells" /\ ~sorted_ /\ currCell_.area = 0 /\ currCell_.cover = 0)
          => UNCHANGED <<numBlocks_, maxBlocks_, currBlock_, currCellPtr_, numCells_, cells_>>]_vars
\* SortAllCells has committed the empty current cell a flat edge left behind, with
\* the last block full and the block limit not reached: the case in which a commit
\* that stores would have taken a new block
C23_Witness ==
    /\ lastOp = "SortAllCells" /\ nSorts = 1
    /\ Len(path) >= 2 /\ path[Len(path)] = Seg(0, 0, 256, 0)
    /\ numCells_ > 0 /\ AndMask(numCells_, CELL_BLOCK_SHIFT) = 0
    /\ currBlock_ = numBlocks_ /\ numBlocks_ < cellBlockLimit_

\* C24: LineOperate terminates for every pair of end points.  The midpoint recursion
\* reaches segments of |dx| < DX_LIMIT after finitely many halvings: every half is
\* shorter than the whole, and the code after the guard runs at most
\* 4 * |dx| / DX_LIMIT - 1 times (once when |dx| < DX_LIMIT).  Every step of a row loop
\* (while ey1 != ey2) and of a column loop (while pixelX1 != pixelX2) brings its
\* counter nearer to its target, upwards and downwards, and the call leaves the
\* current cell at the pixel of (x2, y2).
C24_LineOperateTerminates ==
    lastOp = "LineOperate" =>
        /\ ~astray
        /\ bodyRuns >= 1
        /\ bodyRuns * DX_LIMIT
              <= Max2(DX_LIMIT, 4 * Abs(hargs[3] - hargs[1]) - DX_LIMIT)
        /\ currCell_.x = Shr(hargs[3], POLY_SUBPIXEL_SHIFT)
        /\ currCell_.y = Shr(hargs[4], POLY_SUBPIXEL_SHIFT)
\* a segment that runs to the left over more than twice DX_LIMIT and downwards over
\* several rows has been rasterized: the guard has halved twice, and the row and the
\* column loops have counted down
C24_Witness ==
    /\ lastOp = "LineOperate"
    /\ hargs[3] - hargs[1] <= -(2 * DX_LIMIT)
    /\ Shr(hargs[4], POLY_SUBPIXEL_SHIFT) < Shr(hargs[2], POLY_SUBPIXEL_SHIFT) - 2
    /\ bodyRuns >= 7
    /\ numCells_ > 0

====
